---- MODULE Spec2Model ----
(***************************************************************************)
(* A model of the graphqltogo client: the websocket subscription engine    *)
(* (openWebSocket, listen, reconnect, resubscribeAll, closeWebSocket,      *)
(* subscribe, unsubscribe, Close, Subscribe[T]) and the stateless          *)
(* executor (execute / Execute).                                            *)
(*                                                                         *)
(* Every goroutine is a thread with a program counter.  One step is one    *)
(* critical section of client.mu, or one socket / channel / wait-group     *)
(* operation made outside the mutex.                                       *)
(***************************************************************************)
EXTENDS Integers, Sequences, FiniteSets, TLC

\* ------------------------------------------------------------------ bounds
NumCallers == 2  \* caller goroutines using the public API
MaxConns == 2    \* dials that may succeed
MaxSubs == 2     \* subscription ids that may be issued
MaxFrames == 2   \* frames the server sends in total
MaxCalls == 3    \* public calls made in total
MaxErrors == 2   \* entries of a response's error list

\* ------------------------------------------------------- program constants
maxRetries == 5

\* ------------------------------------------------------------------- sets
Callers == 1..NumCallers
ConnIds == 1..MaxConns
SubIds == 1..MaxSubs
PumpOf(c) == NumCallers + c
Pumps == {PumpOf(c) : c \in ConnIds}
Threads == Callers \cup Pumps
Requests == {[query |-> "qA", variables |-> "vA"], [query |-> "qB", variables |-> "vB"]}
NoRequest == [query |-> "", variables |-> ""]
\* Dial attempts that fail before one succeeds: none, all but the last, all.
DialFailures == {0, maxRetries - 1, maxRetries}
CloseCodes == {"normal", "auth", "abnormal"}
\* A frame read from the server: payload is the JSON shape of its "payload" member,
\* "" when the frame has none.
NoFrame == [type |-> "", id |-> 0, seq |-> 0, payload |-> ""]
FrameKinds == {"next", "error", "complete", "ping"}
\* The payload of an error frame: an object, or a list of errors.
ErrorPayloads == {"object", "list"}
ErrorMessages == {"bad", "worse"}
DataValues == {"d1"}
TargetValues == {"zero", "old"}

\* The runs explored: each is within one of these budgets.
Budgets ==
    {[callers |-> 1, conns |-> 1, calls |-> MaxCalls, frames |-> MaxFrames,
      kinds |-> FrameKinds, codes |-> {"normal"}, handler |-> FALSE],
     [callers |-> 1, conns |-> MaxConns, calls |-> MaxCalls - 1, frames |-> 0,
      kinds |-> {}, codes |-> CloseCodes, handler |-> TRUE],
     [callers |-> 1, conns |-> MaxConns, calls |-> MaxCalls - 1, frames |-> MaxFrames,
      kinds |-> {"next"}, codes |-> {"abnormal"}, handler |-> FALSE],
     [callers |-> NumCallers, conns |-> 1, calls |-> MaxCalls, frames |-> 0,
      kinds |-> {}, codes |-> {"abnormal"}, handler |-> FALSE],
     [callers |-> NumCallers, conns |-> MaxConns, calls |-> MaxCalls - 1, frames |-> 1,
      kinds |-> {"ping"}, codes |-> {"normal"}, handler |-> FALSE]}

VARIABLES
    wsConn,            \* client.wsConn: 0 is nil, else the connection's id
    subs,              \* client.subs: id -> [query, variables]; the channel of id is chan[id]
    counter,           \* client.counter
    mu,                \* client.mu: 0 free, else the thread holding it
    wg,                \* client.wg's counter
    authErrorHandler,  \* client.authErrorHandler # nil
    sockState,         \* per connection: "unused", "open", "broken" (peer closed / network lost), "closed" (conn.Close() called)
    closeCode,         \* per connection: the class of the close the peer made
    inbox,             \* per connection: frames sent by the server and not yet read
    outbox,            \* per connection: frames the client wrote, in order
    nextConn,          \* connections dialed so far
    chan,              \* per id: the subscription's Channel: "none", "open", "closed"
    fwd,               \* per id: Subscribe[T]'s forwarding goroutine: "none", "recv", "hold", "done"
    fval,              \* per id: the value the forwarder holds for typedChan
    delivered,         \* per id: the values the consumer received, in order
    pc,                \* per thread: position in the code
    sid,               \* per thread: subID of the call in progress
    req,               \* per thread: operation and variables of the subscribe call in progress
    dconn,             \* per thread: conn of dialWebSocket, of listen, of unsubscribe
    closing,           \* per thread: the connection its closeWebSocket call closed
    tries,             \* per thread: attempts dialWebSocket made
    pmsg,              \* per pump: the frame read (result)
    todo,              \* per thread: records resubscribeAll's range has still to visit
    crashed,           \* the process panicked
    authCalls,         \* per connection: calls of the auth-error handler for its closure
    calls,             \* public calls made so far
    frames,            \* frames the server sent so far
    sent,              \* per id: next and error frames the server sent so far
    budget,            \* what the environment does in this run: callers, calls, dials, frames
    exec,              \* the stateless execute call in progress
    hist               \* history of the run, read by the properties only

vars == <<wsConn, subs, counter, mu, wg, authErrorHandler, sockState, closeCode, inbox,
          outbox, nextConn, chan, fwd, fval, delivered, pc, sid, req, dconn, closing, tries,
          pmsg, todo, crashed, authCalls, calls, frames, sent, budget, exec,
          hist>>

clientVars == <<wsConn, subs, counter, mu, wg, authErrorHandler>>
netVars == <<sockState, closeCode, inbox, outbox, nextConn, authCalls>>
chanVars == <<chan, fwd, fval, delivered>>
localVars == <<sid, req, dconn, closing, tries, pmsg, todo>>
envVars == <<calls, frames, sent, budget, exec>>
engineVars == <<clientVars, netVars, chanVars, pc, localVars, crashed, calls, frames, sent,
                budget, hist>>

\* ---------------------------------------------------------------- helpers
\* conn.WriteJSON: succeeds on an open socket, fails after conn.Close(), and may do
\* either once the peer is gone.
WriteResults(c) ==
    IF sockState[c] = "open" THEN {TRUE}
    ELSE IF sockState[c] = "broken" THEN {TRUE, FALSE}
    ELSE {FALSE}

InitFrame == [type |-> "connection_init", id |-> 0, query |-> "", variables |-> ""]
TerminateFrame == [type |-> "connection_terminate", id |-> 0, query |-> "", variables |-> ""]
PongFrame == [type |-> "pong", id |-> 0, query |-> "", variables |-> ""]
CompleteFrame(id) == [type |-> "complete", id |-> id, query |-> "", variables |-> ""]
SubscribeFrame(id, q, v) == [type |-> "subscribe", id |-> id, query |-> q, variables |-> v]

\* Mutant of Without: delete(client.subs, id) left out.
WithoutNothing(m, id) == m

\* The map client.subs without key id.
Without(m, id) == [k \in DOMAIN m \ {id} |-> m[k]]

Running(t) == pc[t] \notin {"none", "done"}

\* Callers inside Subscribe[T] that have not yet drawn their id.
PendingIds == Cardinality({t \in Callers : pc[t] \in {"ow_check", "ow_dial", "ow_init", "sub_insert"}})

\* The requests a Subscribe[T] call may carry.  The code treats all requests alike, so
\* the first call's is taken to be the first one.
CallableRequests ==
    IF counter + PendingIds = 0
    THEN {[query |-> "qA", variables |-> "vA"]}
    ELSE Requests

\* The server has been asked for id on connection c.
Subscribed(c, id) ==
    \E i \in 1..Len(outbox[c]) : outbox[c][i].type = "subscribe" /\ outbox[c][i].id = id

\* Connection c is the handle or a local of some goroutine.
Referenced(c) == wsConn = c \/ \E q \in Threads : dconn[q] = c

\* Once thread t lets go of connection c, with w the handle: no goroutine can reach c
\* again, and c is not an open socket.
Gone(c, t, w) ==
    /\ c # 0
    /\ w # c
    /\ sockState[c] # "open"
    /\ \A q \in Threads \ {t} : dconn[q] # c /\ closing[q] # c

\* What is recorded of a connection is dropped once it is gone.
Keep(f, c, t, w, empty) == IF Gone(c, t, w) THEN [f EXCEPT ![c] = empty] ELSE f

\* Thread t lets go of connection c; ob is the outbox after t's own write.
ReleaseConn(t, c, w, ob) ==
    /\ closeCode' = Keep(closeCode, c, t, w, "none")
    /\ inbox' = Keep(inbox, c, t, w, <<>>)
    /\ outbox' = Keep(ob, c, t, w, <<>>)
    /\ authCalls' = Keep(authCalls, c, t, w, 0)

\* ------------------------------------------------------- stateless execute
\* The response envelope: data is "absent" or a value, errors the list of messages.
ErrorLists == UNION {[1..n -> ErrorMessages] : n \in 0..MaxErrors}
Envelopes == [status : {"ok"}, data : {"absent"} \cup DataValues, errors : ErrorLists]
\* What the HTTP exchange yields: no response, a body that is not JSON, an envelope.
Responses ==
    {[status |-> "failed", data |-> "absent", errors |-> <<>>],
     [status |-> "malformed", data |-> "absent", errors |-> <<>>]} \cup Envelopes
NoResponse == [status |-> "", data |-> "absent", errors |-> <<>>]

NoError == [kind |-> "nil", message |-> ""]
NoExec == [pc |-> "idle", impl |-> "", body |-> NoResponse, target |-> "", before |-> "",
           errors |-> <<>>, err |-> NoError]

\* json.Unmarshal of the envelope into a response struct whose Data is data: a key
\* that is absent leaves its field as it was.
Unmarshal(body, data) ==
    [Data |-> IF body.data = "absent" THEN data ELSE body.data, Errors |-> body.errors]

\* client.go lines 83-120: the body is decoded into the caller's result and nil
\* returned; the error list is not looked at.
execute(body, data) ==
    IF body.status = "failed"
    THEN [err |-> [kind |-> "failed to execute request", message |-> ""],
          Data |-> data, Errors |-> <<>>]
    ELSE IF body.status = "malformed"
    THEN [err |-> [kind |-> "failed to unmarshal response body", message |-> ""],
          Data |-> data, Errors |-> <<>>]
    ELSE [err |-> NoError,
          Data |-> Unmarshal(body, data).Data, Errors |-> Unmarshal(body, data).Errors]

\* part_005 lines 21-60: result.Data = target, the body is decoded into result, and a
\* non-empty error list is returned as an error with the first message.  The error
\* list itself stays in the local result.
Execute(body, data) ==
    IF body.status = "failed"
    THEN [err |-> [kind |-> "failed to execute request", message |-> ""],
          Data |-> data, Errors |-> <<>>]
    ELSE IF body.status = "malformed"
    THEN [err |-> [kind |-> "failed to unmarshal response body", message |-> ""],
          Data |-> data, Errors |-> <<>>]
    ELSE [err |-> IF Len(Unmarshal(body, data).Errors) > 0
                  THEN [kind |-> "GraphQL error", message |-> Unmarshal(body, data).Errors[1]]
                  ELSE NoError,
          Data |-> Unmarshal(body, data).Data, Errors |-> <<>>]

\* ------------------------------------------------------------------- Init
\* NewClient: no connection, an empty registry, counter 0, no handler.
Init ==
    /\ wsConn = 0
    /\ subs = <<>>
    /\ counter = 0
    /\ mu = 0
    /\ wg = 0
    /\ authErrorHandler = FALSE
    /\ sockState = [c \in ConnIds |-> "unused"]
    /\ closeCode = [c \in ConnIds |-> "none"]
    /\ inbox = [c \in ConnIds |-> <<>>]
    /\ outbox = [c \in ConnIds |-> <<>>]
    /\ nextConn = 0
    /\ chan = [i \in SubIds |-> "none"]
    /\ fwd = [i \in SubIds |-> "none"]
    /\ fval = [i \in SubIds |-> NoFrame]
    /\ delivered = [i \in SubIds |-> <<>>]
    /\ pc = [t \in Threads |-> IF t \in Callers THEN "idle" ELSE "none"]
    /\ sid = [t \in Threads |-> 0]
    /\ req = [t \in Threads |-> NoRequest]
    /\ dconn = [t \in Threads |-> 0]
    /\ closing = [t \in Threads |-> 0]
    /\ tries = [t \in Threads |-> 0]
    /\ pmsg = [t \in Threads |-> NoFrame]
    /\ todo = [t \in Threads |-> {}]
    /\ crashed = FALSE
    /\ authCalls = [c \in ConnIds |-> 0]
    /\ calls = 0
    /\ frames = 0
    /\ sent = [i \in SubIds |-> 0]
    /\ budget \in Budgets
    /\ exec = NoExec
    /\ hist = [returned |-> {}, expect |-> {}, live |-> {}, lastCall |-> "",
               snap |-> [t \in Threads |-> {}]]

\* --------------------------------------------------------- SetAuthErrorHandler
\* client.go lines 67-71.  The handler is registered, if at all, before the first call.
SetAuthErrorHandler ==
    /\ ~crashed /\ mu = 0
    /\ budget.handler
    /\ calls = 0
    /\ ~authErrorHandler
    /\ authErrorHandler' = TRUE
    /\ UNCHANGED <<wsConn, subs, counter, mu, wg, netVars, chanVars, pc, localVars,
                   crashed, envVars, hist>>

\* ------------------------------------------------------------ openWebSocket
\* Mutant of AfterOpen: subscribe goes on to draw its id whatever openWebSocket returned.
AfterOpenIgnoreError(t, ok) ==
    IF t \in Callers THEN "sub_insert"
    ELSE IF ok THEN "rs_lock" ELSE "ow_check"

\* Mutant of AfterOpen: reconnect gives up when openWebSocket fails.
AfterOpenGiveUp(t, ok) ==
    IF t \in Callers
    THEN IF ok THEN "sub_insert" ELSE "idle"
    ELSE IF ok THEN "rs_lock" ELSE "l_exit"

\* What follows openWebSocket's return: subscribe's caller goes on to draw an id or
\* returns the error; reconnect goes on to resubscribeAll or sleeps and calls again.
AfterOpen(t, ok) ==
    IF t \in Callers
    THEN IF ok THEN "sub_insert" ELSE "idle"
    ELSE IF ok THEN "rs_lock" ELSE "ow_check"

\* Mutant of OpenCheck: the handle is not looked at, open goes on to dial.
OpenCheckAlwaysDial(t) ==
    /\ ~crashed /\ mu = 0
    /\ pc[t] = "ow_check"
    /\ pc' = [pc EXCEPT ![t] = "ow_dial"]
    /\ UNCHANGED <<clientVars, netVars, chanVars, localVars, crashed, envVars, hist>>

\* Mutant of OpenCheck: the Unlock before dialing (line 30) is left out.
OpenCheckKeepLock(t) ==
    /\ ~crashed /\ mu = 0
    /\ pc[t] = "ow_check"
    /\ pc' = [pc EXCEPT ![t] = IF wsConn # 0 THEN AfterOpen(t, TRUE) ELSE "ow_dial"]
    /\ mu' = IF wsConn # 0 THEN 0 ELSE t
    /\ UNCHANGED <<wsConn, subs, counter, wg, authErrorHandler, netVars, chanVars, localVars,
                   crashed, envVars, hist>>

\* Lines 25-30: return nil when a handle exists, else go on to dial.
OpenCheck(t) ==
    /\ ~crashed /\ mu = 0
    /\ pc[t] = "ow_check"
    /\ pc' = [pc EXCEPT ![t] = IF wsConn # 0 THEN AfterOpen(t, TRUE) ELSE "ow_dial"]
    /\ UNCHANGED <<clientVars, netVars, chanVars, localVars, crashed, envVars, hist>>

\* Mutant of DialLoop: the loop runs while i <= maxRetries.
DialLoopOneMore(i, failing) ==
    IF failing > maxRetries
    THEN [ok |-> FALSE, attempts |-> maxRetries + 1]
    ELSE [ok |-> TRUE, attempts |-> failing + 1]

\* dialWebSocket's loop (lines 58-72) from counter value i on, when the network makes
\* the first `failing` attempts of the call fail: an attempt is made while
\* i < maxRetries, the loop breaks at the first attempt that succeeds, and the error
\* left by the last attempt is returned when none did.
RECURSIVE DialLoop(_, _)
DialLoop(i, failing) ==
    IF i >= maxRetries THEN [ok |-> FALSE, attempts |-> i]
    ELSE IF i + 1 > failing THEN [ok |-> TRUE, attempts |-> i + 1]
    ELSE DialLoop(i + 1, failing)

\* The count that dialWebSocket's error names (line 71).
DialErrorAttempts == maxRetries

\* Lines 35-42: dialWebSocket (lines 53-75) makes attempt after attempt; the network
\* makes the first n fail.  On success the connection dialed is recorded as the handle
\* under the lock.  tries[t] counts the attempts made.
DialWebSocket(t, n) ==
    /\ ~crashed
    /\ pc[t] = "ow_dial"
    /\ tries' = [tries EXCEPT ![t] = DialLoop(0, n).attempts]
    /\ IF DialLoop(0, n).ok
       THEN /\ mu = 0
            /\ nextConn < budget.conns
            /\ nextConn' = nextConn + 1
            /\ sockState' = [sockState EXCEPT ![nextConn + 1] = "open"]
            /\ dconn' = [dconn EXCEPT ![t] = nextConn + 1]
            /\ wsConn' = nextConn + 1
            /\ pc' = [pc EXCEPT ![t] = "ow_init"]
       ELSE /\ pc' = [pc EXCEPT ![t] = "ow_fail"]
            /\ UNCHANGED <<nextConn, sockState, dconn, wsConn>>
    /\ UNCHANGED <<subs, counter, mu, wg, authErrorHandler, closeCode, inbox, outbox,
                   authCalls, chanVars, sid, req, closing, pmsg, todo, crashed, envVars,
                   hist>>

\* Lines 70-72 and 36-38: dialWebSocket returns the error naming maxRetries attempts,
\* and openWebSocket returns it.
OpenFail(t) ==
    /\ ~crashed
    /\ pc[t] = "ow_fail"
    /\ pc' = [pc EXCEPT ![t] = AfterOpen(t, FALSE)]
    /\ tries' = [tries EXCEPT ![t] = 0]
    /\ req' = [req EXCEPT ![t] = NoRequest]
    /\ UNCHANGED <<clientVars, netVars, chanVars, sid, dconn, closing, pmsg, todo, crashed,
                   envVars, hist>>

\* Lines 44-50: sendInitMessage writes on client.wsConn, read without the lock; on
\* success the pump is started (go client.listen()) and nil returned.
OpenInit(t) ==
    /\ ~crashed
    /\ pc[t] = "ow_init"
    /\ IF wsConn = 0
       THEN /\ crashed' = TRUE
            /\ UNCHANGED <<closeCode, inbox, outbox, authCalls, pc, dconn, req, tries>>
       ELSE /\ \E ok \in WriteResults(wsConn) :
                 IF ok
                 THEN /\ ReleaseConn(t, dconn[t], wsConn,
                                     [outbox EXCEPT ![wsConn] = Append(@, InitFrame)])
                      /\ pc' = [pc EXCEPT ![t] = AfterOpen(t, TRUE),
                                          ![PumpOf(dconn[t])] = "l_start"]
                      /\ UNCHANGED req
                 ELSE /\ ReleaseConn(t, dconn[t], wsConn, outbox)
                      /\ pc' = [pc EXCEPT ![t] = AfterOpen(t, FALSE)]
                      /\ req' = [req EXCEPT ![t] = NoRequest]
            /\ dconn' = [dconn EXCEPT ![t] = 0]
            /\ tries' = [tries EXCEPT ![t] = 0]
            /\ UNCHANGED crashed
    /\ UNCHANGED <<clientVars, sockState, nextConn, chanVars, sid, closing, pmsg, todo,
                   envVars, hist>>

\* ------------------------------------------------- subscribe / Subscribe[T]
\* Mutant of InsertRecord: the id is the registry's size plus one, not the counter's
\* next value.
InsertRecordBySize(t, r) ==
    /\ counter' = Cardinality(DOMAIN subs) + 1
    /\ subs' = [k \in DOMAIN subs \cup {counter'} |-> IF k = counter' THEN r ELSE subs[k]]
    /\ chan' = [chan EXCEPT ![counter'] = "open"]
    /\ sid' = [sid EXCEPT ![t] = counter']

\* Lines 289-298: draw the id, make the channel, insert the record.
InsertRecord(t, r) ==
    /\ counter' = counter + 1
    /\ subs' = [k \in DOMAIN subs \cup {counter + 1} |->
                  IF k = counter + 1 THEN r ELSE subs[k]]
    /\ chan' = [chan EXCEPT ![counter + 1] = "open"]
    /\ sid' = [sid EXCEPT ![t] = counter + 1]

\* Lines 280-287 (and 289-298 when a handle exists: the lock is held throughout).
SubscribeEnter(t, r) ==
    /\ ~crashed /\ mu = 0
    /\ pc[t] = "idle"
    /\ t <= budget.callers
    /\ calls < budget.calls
    /\ counter + PendingIds < MaxSubs
    /\ calls' = calls + 1
    /\ IF wsConn # 0
       THEN /\ InsertRecord(t, r)
            /\ pc' = [pc EXCEPT ![t] = "sub_send"]
       ELSE /\ pc' = [pc EXCEPT ![t] = "ow_check"]
            /\ UNCHANGED <<counter, subs, chan, sid>>
    /\ req' = [req EXCEPT ![t] = r]
    /\ hist' = [hist EXCEPT !.lastCall = "subscribe"]
    /\ UNCHANGED <<wsConn, mu, wg, authErrorHandler, netVars, fwd, fval, delivered,
                   dconn, closing, tries, pmsg, todo, crashed, frames, sent, budget, exec>>

\* Lines 286-298, after openWebSocket returned nil.
SubscribeInsert(t) ==
    /\ ~crashed /\ mu = 0
    /\ pc[t] = "sub_insert"
    /\ InsertRecord(t, req[t])
    /\ pc' = [pc EXCEPT ![t] = "sub_send"]
    /\ UNCHANGED <<wsConn, mu, wg, authErrorHandler, netVars, fwd, fval, delivered,
                   req, dconn, closing, tries, pmsg, todo, crashed, envVars, hist>>

\* Lines 300-307 and Subscribe[T] 373-390: sendSubscribeMessage writes on
\* client.wsConn, read without the lock.  On success subscribe returns and
\* Subscribe[T] adds its forwarding goroutine to the wait group; on failure
\* cleanupSubscription runs.
SubscribeSend(t) ==
    /\ ~crashed
    /\ pc[t] = "sub_send"
    /\ IF wsConn = 0
       THEN /\ crashed' = TRUE
            /\ UNCHANGED <<outbox, pc, sid, req, wg, fwd, hist>>
       ELSE /\ \E ok \in WriteResults(wsConn) :
                 IF ok
                 THEN /\ outbox' = [outbox EXCEPT ![wsConn] =
                            Append(@, SubscribeFrame(sid[t], req[t].query, req[t].variables))]
                      /\ wg' = wg + 1
                      /\ fwd' = [fwd EXCEPT ![sid[t]] = "recv"]
                      /\ hist' = [hist EXCEPT !.returned = @ \cup {sid[t]},
                                              !.expect = @ \cup {sid[t]},
                                              !.live = @ \cup ({sid[t]} \cap DOMAIN subs)]
                      /\ pc' = [pc EXCEPT ![t] = "idle"]
                      /\ sid' = [sid EXCEPT ![t] = 0]
                 ELSE /\ pc' = [pc EXCEPT ![t] = "cl_clean"]
                      /\ UNCHANGED <<outbox, wg, fwd, hist, sid>>
            /\ req' = [req EXCEPT ![t] = NoRequest]
            /\ UNCHANGED crashed
    /\ UNCHANGED <<wsConn, subs, counter, mu, authErrorHandler, sockState, closeCode, inbox,
                   nextConn, authCalls, chan, fval, delivered, dconn, closing, tries, pmsg,
                   todo, envVars>>

\* Mutant of CleanupSubscription: closeWebSocket is not called.
CleanupWithoutClose(t) ==
    /\ ~crashed /\ mu = 0
    /\ pc[t] = "cl_clean"
    /\ subs' = Without(subs, sid[t])
    /\ sid' = [sid EXCEPT ![t] = 0]
    /\ pc' = [pc EXCEPT ![t] = "idle"]
    /\ UNCHANGED <<wsConn, counter, mu, wg, authErrorHandler, netVars, chanVars, req,
                   dconn, closing, tries, pmsg, todo, crashed, envVars, hist>>

\* cleanupSubscription, lines 326-335.
CleanupSubscription(t) ==
    /\ ~crashed /\ mu = 0
    /\ pc[t] = "cl_clean"
    /\ subs' = Without(subs, sid[t])
    /\ sid' = [sid EXCEPT ![t] = 0]
    /\ pc' = [pc EXCEPT ![t] = IF DOMAIN subs' = {} THEN "cw" ELSE "idle"]
    /\ UNCHANGED <<wsConn, counter, mu, wg, authErrorHandler, netVars, chanVars, req,
                   dconn, closing, tries, pmsg, todo, crashed, envVars, hist>>

\* ----------------------------------------------------------- closeWebSocket
\* Lines 257-272, the critical section (the deferred Unlock runs before the deferred
\* Wait): terminate is written best-effort, the socket closed, the handle cleared.
CloseLocked(t) ==
    /\ ~crashed /\ mu = 0
    /\ pc[t] = "cw"
    /\ IF wsConn # 0
       THEN /\ \E ok \in WriteResults(wsConn) :
                 outbox' = [outbox EXCEPT ![wsConn] =
                              IF ok THEN Append(@, TerminateFrame) ELSE @]
            /\ sockState' = [sockState EXCEPT ![wsConn] = "closed"]
            /\ inbox' = [inbox EXCEPT ![wsConn] = <<>>]
            /\ closeCode' = [closeCode EXCEPT ![wsConn] = "none"]
            /\ wsConn' = 0
       ELSE UNCHANGED <<outbox, sockState, inbox, closeCode, wsConn>>
    /\ closing' = [closing EXCEPT ![t] = wsConn]
    /\ pc' = [pc EXCEPT ![t] = "cw_wait"]
    /\ UNCHANGED <<subs, counter, mu, wg, authErrorHandler, nextConn, authCalls, chanVars,
                   sid, req, dconn, tries, pmsg, todo, crashed, envVars, hist>>

\* Line 258, the deferred client.wg.Wait(): returns once the counter is 0.  The pump
\* returns into listen's loop; a caller's call returns.
CloseWait(t) ==
    /\ ~crashed
    /\ pc[t] = "cw_wait"
    /\ wg = 0
    /\ pc' = [pc EXCEPT ![t] = IF t \in Callers THEN "idle" ELSE "l_loop"]
    /\ closing' = [closing EXCEPT ![t] = 0]
    /\ ReleaseConn(t, closing[t], wsConn, outbox)
    /\ UNCHANGED <<clientVars, sockState, nextConn, chanVars, sid, req, dconn, tries, pmsg,
                   todo, crashed, envVars, hist>>

\* -------------------------------------------------------------------- Close
\* Mutant of Close: closeWebSocket is called without looking at the handle.
CloseUnchecked(t) ==
    /\ ~crashed /\ mu = 0
    /\ pc[t] = "idle"
    /\ t <= budget.callers
    /\ calls < budget.calls
    /\ calls' = calls + 1
    /\ pc' = [pc EXCEPT ![t] = "cw"]
    /\ hist' = [hist EXCEPT !.lastCall = IF wsConn # 0 THEN "close" ELSE "close_noop"]
    /\ UNCHANGED <<clientVars, netVars, chanVars, localVars, crashed, frames, sent, budget,
                   exec>>

\* Lines 363-371.
Close(t) ==
    /\ ~crashed /\ mu = 0
    /\ pc[t] = "idle"
    /\ t <= budget.callers
    /\ calls < budget.calls
    /\ calls' = calls + 1
    /\ pc' = [pc EXCEPT ![t] = IF wsConn # 0 THEN "cw" ELSE "idle"]
    /\ hist' = [hist EXCEPT !.lastCall = IF wsConn # 0 THEN "close" ELSE "close_noop"]
    /\ UNCHANGED <<clientVars, netVars, chanVars, localVars, crashed, frames, sent, budget, exec>>

\* -------------------------------------------------------------- unsubscribe
\* Mutant of UnsubscribeEnter: with no handle the call returns nil.
UnsubscribeEnterNoError(t, id) ==
    /\ ~crashed /\ mu = 0
    /\ pc[t] = "idle"
    /\ t <= budget.callers
    /\ calls < budget.calls
    /\ id \in hist.returned
    /\ calls' = calls + 1
    /\ IF wsConn = 0
       THEN /\ hist' = [hist EXCEPT !.expect = @ \ {id}, !.lastCall = "unsubscribe"]
            /\ UNCHANGED <<pc, sid, dconn>>
       ELSE /\ pc' = [pc EXCEPT ![t] = "un_write"]
            /\ sid' = [sid EXCEPT ![t] = id]
            /\ dconn' = [dconn EXCEPT ![t] = wsConn]
            /\ hist' = [hist EXCEPT !.lastCall = "unsubscribe"]
    /\ UNCHANGED <<clientVars, netVars, chanVars, req, closing, tries, pmsg, todo, crashed,
                   frames, sent, budget, exec>>

\* Lines 338-344: read the handle; with no handle the call returns the error "no active
\* WebSocket connection" (recorded as the call's outcome "unsub_noconn").
UnsubscribeEnter(t, id) ==
    /\ ~crashed /\ mu = 0
    /\ pc[t] = "idle"
    /\ t <= budget.callers
    /\ calls < budget.calls
    /\ id \in hist.returned
    /\ calls' = calls + 1
    /\ IF wsConn = 0
       THEN /\ hist' = [hist EXCEPT !.expect = @ \ {id}, !.lastCall = "unsub_noconn"]
            /\ UNCHANGED <<pc, sid, dconn>>
       ELSE /\ pc' = [pc EXCEPT ![t] = "un_write"]
            /\ sid' = [sid EXCEPT ![t] = id]
            /\ dconn' = [dconn EXCEPT ![t] = wsConn]
            /\ hist' = [hist EXCEPT !.lastCall = "unsubscribe"]
    /\ UNCHANGED <<clientVars, netVars, chanVars, req, closing, tries, pmsg, todo, crashed,
                   frames, sent, budget, exec>>

\* Lines 346-354: write complete on the local conn; a failed write returns the error.
UnsubscribeWrite(t) ==
    /\ ~crashed
    /\ pc[t] = "un_write"
    /\ \E ok \in WriteResults(dconn[t]) :
         IF ok
         THEN /\ ReleaseConn(t, dconn[t], wsConn,
                             [outbox EXCEPT ![dconn[t]] = Append(@, CompleteFrame(sid[t]))])
              /\ pc' = [pc EXCEPT ![t] = "un_delete"]
              /\ UNCHANGED <<sid, hist>>
         ELSE /\ ReleaseConn(t, dconn[t], wsConn, outbox)
              /\ pc' = [pc EXCEPT ![t] = "idle"]
              /\ hist' = [hist EXCEPT !.expect = @ \ {sid[t]}]
              /\ sid' = [sid EXCEPT ![t] = 0]
    /\ dconn' = [dconn EXCEPT ![t] = 0]
    /\ UNCHANGED <<clientVars, sockState, nextConn, chanVars, req, closing, tries,
                   pmsg, todo, crashed, envVars>>

\* Lines 356-360: delete the record and return nil.
UnsubscribeDelete(t) ==
    /\ ~crashed /\ mu = 0
    /\ pc[t] = "un_delete"
    /\ subs' = Without(subs, sid[t])
    /\ hist' = [hist EXCEPT !.expect = @ \ {sid[t]}, !.live = @ \ {sid[t]},
                            !.lastCall = IF DOMAIN subs = {sid[t]} /\ wsConn # 0
                                            /\ sockState[wsConn] = "open"
                                         THEN "unsub_last" ELSE @]
    /\ sid' = [sid EXCEPT ![t] = 0]
    /\ pc' = [pc EXCEPT ![t] = "idle"]
    /\ UNCHANGED <<wsConn, counter, mu, wg, authErrorHandler, netVars, chanVars, req,
                   dconn, closing, tries, pmsg, todo, crashed, envVars>>

\* ------------------------------------------------------------------- listen
\* Lines 101-102: the goroutine adds itself to the wait group once it runs.
ListenStart(p) ==
    /\ ~crashed
    /\ pc[p] = "l_start"
    /\ wg' = wg + 1
    /\ pc' = [pc EXCEPT ![p] = "l_loop"]
    /\ UNCHANGED <<wsConn, subs, counter, mu, authErrorHandler, netVars, chanVars,
                   localVars, crashed, envVars, hist>>

\* Lines 105-112: conn := client.wsConn under the lock; nil ends the pump.
ListenLoop(p) ==
    /\ ~crashed /\ mu = 0
    /\ pc[p] = "l_loop"
    /\ pc' = [pc EXCEPT ![p] = IF wsConn = 0 THEN "l_exit" ELSE "l_read"]
    /\ dconn' = [dconn EXCEPT ![p] = wsConn]
    /\ UNCHANGED <<clientVars, netVars, chanVars, sid, req, closing, tries, pmsg, todo,
                   crashed, envVars, hist>>

\* json decoding of a frame into WebSocketMessage (lines 18-22): Payload is a
\* map[string]interface{}, which a JSON object or an absent member decodes into and a
\* JSON array does not.
Decodes(f) == f.payload # "list"

\* conn.ReadJSON returns a frame (lines 114-120).  The handlers do not use conn; it is
\* kept while a ping is handled, as the connection the ping was read on.
ListenRead(p) ==
    /\ ~crashed
    /\ pc[p] = "l_read"
    /\ sockState[dconn[p]] \in {"open", "broken"}
    /\ inbox[dconn[p]] # <<>>
    /\ Decodes(Head(inbox[dconn[p]]))
    /\ pmsg' = [pmsg EXCEPT ![p] = Head(inbox[dconn[p]])]
    /\ IF Head(inbox[dconn[p]]).type = "ping"
       THEN /\ inbox' = [inbox EXCEPT ![dconn[p]] = Tail(@)]
            /\ UNCHANGED <<closeCode, outbox, authCalls, dconn>>
       ELSE /\ closeCode' = Keep(closeCode, dconn[p], p, wsConn, "none")
            /\ inbox' = Keep([inbox EXCEPT ![dconn[p]] = Tail(@)], dconn[p], p, wsConn, <<>>)
            /\ outbox' = Keep(outbox, dconn[p], p, wsConn, <<>>)
            /\ authCalls' = Keep(authCalls, dconn[p], p, wsConn, 0)
            /\ dconn' = [dconn EXCEPT ![p] = 0]
    /\ pc' = [pc EXCEPT ![p] = "l_handle"]
    /\ UNCHANGED <<clientVars, sockState, nextConn, chanVars, sid, req, closing, tries,
                   todo, crashed, envVars, hist>>

\* Mutant of ListenReadError: handleReadError does not clear the handle.
ListenReadErrorKeepHandle(p, code) ==
    /\ ~crashed /\ mu = 0
    /\ pc[p] = "l_read"
    /\ \/ sockState[dconn[p]] = "closed" /\ code = "abnormal"
       \/ /\ sockState[dconn[p]] = "broken"
          /\ inbox[dconn[p]] = <<>>
          /\ code \in budget.codes
          /\ closeCode[dconn[p]] \in {"none", code}
       \/ /\ sockState[dconn[p]] \in {"open", "broken"}
          /\ inbox[dconn[p]] # <<>>
          /\ ~Decodes(Head(inbox[dconn[p]]))
          /\ code = "abnormal"
    /\ closeCode' = [closeCode EXCEPT ![dconn[p]] =
                       IF sockState[dconn[p]] = "broken" /\ inbox[dconn[p]] = <<>>
                       THEN code ELSE @]
    /\ inbox' = [inbox EXCEPT ![dconn[p]] = IF @ # <<>> THEN Tail(@) ELSE @]
    /\ wsConn' = wsConn
    /\ pc' = [pc EXCEPT ![p] =
                IF code = "normal" THEN "l_exit"
                ELSE IF code = "auth" THEN "re_auth"
                ELSE "rc_check"]
    /\ hist' = [hist EXCEPT !.snap[p] = IF code = "normal" THEN {} ELSE DOMAIN subs]
    /\ UNCHANGED <<subs, counter, mu, wg, authErrorHandler, sockState, outbox,
                   nextConn, authCalls, chanVars, localVars, crashed, envVars>>

\* Mutant of ListenReadError: a normal or going-away close goes on to reconnect too.
ListenReadErrorAlwaysRecover(p, code) ==
    /\ ~crashed /\ mu = 0
    /\ pc[p] = "l_read"
    /\ \/ sockState[dconn[p]] = "closed" /\ code = "abnormal"
       \/ /\ sockState[dconn[p]] = "broken"
          /\ inbox[dconn[p]] = <<>>
          /\ code \in budget.codes
          /\ closeCode[dconn[p]] \in {"none", code}
       \/ /\ sockState[dconn[p]] \in {"open", "broken"}
          /\ inbox[dconn[p]] # <<>>
          /\ ~Decodes(Head(inbox[dconn[p]]))
          /\ code = "abnormal"
    /\ closeCode' = [closeCode EXCEPT ![dconn[p]] =
                       IF sockState[dconn[p]] = "broken" /\ inbox[dconn[p]] = <<>>
                       THEN code ELSE @]
    /\ inbox' = [inbox EXCEPT ![dconn[p]] = IF @ # <<>> THEN Tail(@) ELSE @]
    /\ wsConn' = 0
    /\ pc' = [pc EXCEPT ![p] =
                IF code = "normal" THEN "rc_check"
                ELSE IF code = "auth" THEN "re_auth"
                ELSE "rc_check"]
    /\ hist' = [hist EXCEPT !.snap[p] = IF code = "normal" THEN {} ELSE DOMAIN subs]
    /\ UNCHANGED <<subs, counter, mu, wg, authErrorHandler, sockState, outbox,
                   nextConn, authCalls, chanVars, localVars, crashed, envVars>>

\* conn.ReadJSON fails (lines 115-117): with a network error ("abnormal": not a close
\* error) on a socket this client closed, with the peer's close once the frames before
\* it are read, with a decoding error (not a close error either) on a frame that does
\* not fit WebSocketMessage.  The reader learns the peer's close code here, and every later read of
\* the connection fails the same way.  handleReadError clears the handle (lines
\* 125-127), then classifies the error (lines 129-141): a normal or going-away close
\* ends the pump, an authorization close goes to the handler, anything else to
\* reconnect.
ListenReadError(p, code) ==
    /\ ~crashed /\ mu = 0
    /\ pc[p] = "l_read"
    /\ \/ sockState[dconn[p]] = "closed" /\ code = "abnormal"
       \/ /\ sockState[dconn[p]] = "broken"
          /\ inbox[dconn[p]] = <<>>
          /\ code \in budget.codes
          /\ closeCode[dconn[p]] \in {"none", code}
       \/ /\ sockState[dconn[p]] \in {"open", "broken"}
          /\ inbox[dconn[p]] # <<>>
          /\ ~Decodes(Head(inbox[dconn[p]]))
          /\ code = "abnormal"
    /\ closeCode' = [closeCode EXCEPT ![dconn[p]] =
                       IF sockState[dconn[p]] = "broken" /\ inbox[dconn[p]] = <<>>
                       THEN code ELSE @]
    /\ inbox' = [inbox EXCEPT ![dconn[p]] = IF @ # <<>> THEN Tail(@) ELSE @]
    /\ wsConn' = 0
    /\ pc' = [pc EXCEPT ![p] =
                IF code = "normal" THEN "l_exit"
                ELSE IF code = "auth" THEN "re_auth"
                ELSE "rc_check"]
    /\ hist' = [hist EXCEPT !.snap[p] = IF code = "normal" THEN {} ELSE DOMAIN subs]
    /\ UNCHANGED <<subs, counter, mu, wg, authErrorHandler, sockState, outbox,
                   nextConn, authCalls, chanVars, localVars, crashed, envVars>>

\* Lines 134-138: the auth-error handler is called when one is registered.
HandleAuthError(p) ==
    /\ ~crashed
    /\ pc[p] = "re_auth"
    /\ authCalls' = [authCalls EXCEPT ![dconn[p]] = IF authErrorHandler THEN @ + 1 ELSE @]
    /\ pc' = [pc EXCEPT ![p] = "rc_check"]
    /\ UNCHANGED <<clientVars, sockState, closeCode, inbox, outbox, nextConn, chanVars,
                   localVars, crashed, envVars, hist>>

\* reconnect, lines 218-223: return when a handle exists, else loop on openWebSocket.
ReconnectCheck(p) ==
    /\ ~crashed /\ mu = 0
    /\ pc[p] = "rc_check"
    /\ pc' = [pc EXCEPT ![p] = IF wsConn # 0 THEN "l_exit" ELSE "ow_check"]
    /\ ReleaseConn(p, dconn[p], wsConn, outbox)
    /\ dconn' = [dconn EXCEPT ![p] = 0]
    /\ UNCHANGED <<clientVars, sockState, nextConn, chanVars, sid, req, closing, tries,
                   pmsg, todo, crashed, envVars, hist>>

\* resubscribeAll, line 237: take the lock; the range visits the records present.
ResubscribeLock(p) ==
    /\ ~crashed /\ mu = 0
    /\ pc[p] = "rs_lock"
    /\ mu' = p
    /\ todo' = [todo EXCEPT ![p] = DOMAIN subs]
    /\ pc' = [pc EXCEPT ![p] = "rs_loop"]
    /\ UNCHANGED <<wsConn, subs, counter, wg, authErrorHandler, netVars, chanVars, sid, req,
                   dconn, closing, tries, pmsg, crashed, envVars, hist>>

\* The frame resubscribeAll builds for record id (lines 240-247).
ResubscribeFrame(id) == SubscribeFrame(id, subs[id].query, subs[id].variables)

\* Mutant of ResubscribeOne: the range is left at the first write that fails.
ResubscribeOneAbort(p, id) ==
    /\ ~crashed /\ mu = p
    /\ pc[p] = "rs_loop"
    /\ id \in todo[p]
    /\ IF wsConn = 0
       THEN /\ crashed' = TRUE
            /\ UNCHANGED <<outbox, chan, subs, todo, hist>>
       ELSE /\ \E ok \in WriteResults(wsConn) :
                 IF ok
                 THEN /\ outbox' = [outbox EXCEPT ![wsConn] = Append(@, ResubscribeFrame(id))]
                      /\ UNCHANGED <<chan, subs, hist>>
                 ELSE /\ chan' = [chan EXCEPT ![id] = "closed"]
                      /\ subs' = Without(subs, id)
                      /\ hist' = [hist EXCEPT !.live = @ \ {id}, !.snap[p] = @ \ {id}]
                      /\ UNCHANGED outbox
            /\ todo' = [todo EXCEPT ![p] = IF subs' # subs THEN {} ELSE @ \ {id}]
            /\ UNCHANGED crashed
    /\ UNCHANGED <<wsConn, counter, mu, wg, authErrorHandler, sockState, closeCode, inbox,
                   nextConn, authCalls, fwd, fval, delivered, pc, sid, req, dconn, closing,
                   tries, pmsg, envVars>>

\* resubscribeAll, lines 239-253: one iteration of the range, in map order.
ResubscribeOne(p, id) ==
    /\ ~crashed /\ mu = p
    /\ pc[p] = "rs_loop"
    /\ id \in todo[p]
    /\ IF wsConn = 0
       THEN /\ crashed' = TRUE
            /\ UNCHANGED <<outbox, chan, subs, todo, hist>>
       ELSE /\ \E ok \in WriteResults(wsConn) :
                 IF ok
                 THEN /\ outbox' = [outbox EXCEPT ![wsConn] = Append(@, ResubscribeFrame(id))]
                      /\ UNCHANGED <<chan, subs, hist>>
                 ELSE /\ chan' = [chan EXCEPT ![id] = "closed"]
                      /\ subs' = Without(subs, id)
                      /\ hist' = [hist EXCEPT !.live = @ \ {id}, !.snap[p] = @ \ {id}]
                      /\ UNCHANGED outbox
            /\ todo' = [todo EXCEPT ![p] = @ \ {id}]
            /\ UNCHANGED crashed
    /\ UNCHANGED <<wsConn, counter, mu, wg, authErrorHandler, sockState, closeCode, inbox,
                   nextConn, authCalls, fwd, fval, delivered, pc, sid, req, dconn, closing,
                   tries, pmsg, envVars>>

\* resubscribeAll returns (the deferred Unlock), reconnect returns, handleReadError
\* returns.
ResubscribeUnlock(p) ==
    /\ ~crashed /\ mu = p
    /\ pc[p] = "rs_loop"
    /\ todo[p] = {}
    /\ mu' = 0
    /\ pc' = [pc EXCEPT ![p] = "l_exit"]
    /\ UNCHANGED <<wsConn, subs, counter, wg, authErrorHandler, netVars, chanVars,
                   localVars, crashed, envVars, hist>>

\* listen returns: the deferred client.wg.Done() (line 102).
ListenExit(p) ==
    /\ ~crashed
    /\ pc[p] = "l_exit"
    /\ wg' = wg - 1
    /\ pc' = [pc EXCEPT ![p] = "done"]
    /\ ReleaseConn(p, dconn[p], wsConn, outbox)
    /\ dconn' = [dconn EXCEPT ![p] = 0]
    /\ pmsg' = [pmsg EXCEPT ![p] = NoFrame]
    /\ hist' = [hist EXCEPT !.snap[p] = {}]
    /\ UNCHANGED <<wsConn, subs, counter, mu, authErrorHandler, sockState, nextConn,
                   chanVars, sid, req, closing, tries, todo, crashed, envVars>>

\* ------------------------------------------------------------ handleMessage
\* Mutant of HandleDataLookup: a frame whose id is not registered goes to a record
\* that is.
HandleDataLookupAny(p) ==
    /\ pmsg[p].type \in {"next", "error"}
    /\ \E id \in SubIds \cup {0} :
         /\ IF pmsg[p].id \in DOMAIN subs THEN id = pmsg[p].id
            ELSE IF DOMAIN subs = {} THEN id = 0 ELSE id \in DOMAIN subs
         /\ pc' = [pc EXCEPT ![p] = IF id # 0 THEN "l_send" ELSE "l_loop"]
         /\ sid' = [sid EXCEPT ![p] = id]
    /\ UNCHANGED <<clientVars, netVars, chanVars, dconn, crashed, hist>>

\* handleDataMessage, lines 163-171, for a next or an error frame (line 147): look the
\* record up under the lock.  A known id goes on to deliver into the record's channel,
\* an unknown one is logged.
HandleDataLookup(p) ==
    /\ pmsg[p].type \in {"next", "error"}
    /\ pc' = [pc EXCEPT ![p] = IF pmsg[p].id \in DOMAIN subs THEN "l_send" ELSE "l_loop"]
    /\ sid' = [sid EXCEPT ![p] = IF pmsg[p].id \in DOMAIN subs THEN pmsg[p].id ELSE 0]
    /\ UNCHANGED <<clientVars, netVars, chanVars, dconn, crashed, hist>>

\* Mutant of HandleComplete: closeWebSocket is called whatever the registry holds.
HandleCompleteThenClose(p) ==
    /\ pmsg[p].type = "complete"
    /\ IF pmsg[p].id \in DOMAIN subs
       THEN /\ chan' = [chan EXCEPT ![pmsg[p].id] = "closed"]
            /\ subs' = Without(subs, pmsg[p].id)
            /\ hist' = [hist EXCEPT !.expect = @ \ {pmsg[p].id}, !.live = @ \ {pmsg[p].id}]
       ELSE UNCHANGED <<chan, subs, hist>>
    /\ pc' = [pc EXCEPT ![p] = "cw"]
    /\ UNCHANGED <<wsConn, counter, mu, wg, authErrorHandler, netVars, fwd, fval,
                   delivered, sid, dconn, crashed>>

\* handleCompleteMessage, lines 191-201: close the channel, delete the record, and go
\* on to closeWebSocket when the registry is empty.
HandleComplete(p) ==
    /\ pmsg[p].type = "complete"
    /\ IF pmsg[p].id \in DOMAIN subs
       THEN /\ chan' = [chan EXCEPT ![pmsg[p].id] = "closed"]
            /\ subs' = Without(subs, pmsg[p].id)
            /\ hist' = [hist EXCEPT !.expect = @ \ {pmsg[p].id}, !.live = @ \ {pmsg[p].id}]
       ELSE UNCHANGED <<chan, subs, hist>>
    /\ pc' = [pc EXCEPT ![p] = IF DOMAIN subs' = {} THEN "cw" ELSE "l_loop"]
    /\ UNCHANGED <<wsConn, counter, mu, wg, authErrorHandler, netVars, fwd, fval,
                   delivered, sid, dconn, crashed>>

\* sendPong, lines 205-214: the handle is read under the lock and written to; the
\* connection the ping was read on is not used.
SendPong(p) ==
    /\ pmsg[p].type = "ping"
    /\ IF wsConn = 0
       THEN /\ crashed' = TRUE
            /\ UNCHANGED <<closeCode, inbox, outbox, authCalls, pc, dconn>>
       ELSE /\ \E ok \in WriteResults(wsConn) :
                 ReleaseConn(p, dconn[p], wsConn,
                             [outbox EXCEPT ![wsConn] = IF ok THEN Append(@, PongFrame) ELSE @])
            /\ pc' = [pc EXCEPT ![p] = "l_loop"]
            /\ dconn' = [dconn EXCEPT ![p] = 0]
            /\ UNCHANGED crashed
    /\ UNCHANGED <<clientVars, sockState, nextConn, chanVars, sid, hist>>

\* handleMessage, lines 145-160.
HandleMessage(p) ==
    /\ ~crashed /\ mu = 0
    /\ pc[p] = "l_handle"
    /\ \/ HandleDataLookup(p)
       \/ HandleComplete(p)
       \/ SendPong(p)
    /\ pmsg' = [pmsg EXCEPT ![p] = IF pc'[p] = "l_send" THEN @ ELSE NoFrame]
    /\ UNCHANGED <<req, closing, tries, todo, envVars>>

\* Mutant of DeliverToChannel: the send does not block; with no receiver waiting the
\* value is dropped.
DeliverOrDrop(p) ==
    /\ ~crashed
    /\ pc[p] = "l_send"
    /\ IF chan[sid[p]] = "closed"
       THEN /\ crashed' = TRUE
            /\ UNCHANGED <<fwd, fval, pc, sid, pmsg>>
       ELSE /\ IF fwd[sid[p]] = "recv"
               THEN /\ fwd' = [fwd EXCEPT ![sid[p]] = "hold"]
                    /\ fval' = [fval EXCEPT ![sid[p]] = pmsg[p]]
               ELSE UNCHANGED <<fwd, fval>>
            /\ pc' = [pc EXCEPT ![p] = "l_loop"]
            /\ sid' = [sid EXCEPT ![p] = 0]
            /\ pmsg' = [pmsg EXCEPT ![p] = NoFrame]
            /\ UNCHANGED crashed
    /\ UNCHANGED <<clientVars, netVars, chan, delivered, req, dconn, closing, tries, todo,
                   envVars, hist>>

\* handleDataMessage, lines 173-186: the decoded target is sent on the record's
\* unbuffered channel; Subscribe[T]'s goroutine receives it.  A send on a closed
\* channel panics.
DeliverToChannel(p) ==
    /\ ~crashed
    /\ pc[p] = "l_send"
    /\ IF chan[sid[p]] = "closed"
       THEN /\ crashed' = TRUE
            /\ UNCHANGED <<fwd, fval, pc, sid, pmsg>>
       ELSE /\ fwd[sid[p]] = "recv"
            /\ fwd' = [fwd EXCEPT ![sid[p]] = "hold"]
            /\ fval' = [fval EXCEPT ![sid[p]] = pmsg[p]]
            /\ pc' = [pc EXCEPT ![p] = "l_loop"]
            /\ sid' = [sid EXCEPT ![p] = 0]
            /\ pmsg' = [pmsg EXCEPT ![p] = NoFrame]
            /\ UNCHANGED crashed
    /\ UNCHANGED <<clientVars, netVars, chan, delivered, req, dconn, closing, tries, todo,
                   envVars, hist>>

\* Subscribe[T]'s goroutine, lines 382-388: the range over subChan ends when the
\* channel is closed; typedChan is closed and the wait group released.
ForwarderExit(id) ==
    /\ ~crashed
    /\ fwd[id] = "recv"
    /\ chan[id] = "closed"
    /\ fwd' = [fwd EXCEPT ![id] = "done"]
    /\ wg' = wg - 1
    /\ UNCHANGED <<wsConn, subs, counter, mu, authErrorHandler, netVars, chan, fval,
                   delivered, pc, localVars, crashed, envVars, hist>>

\* The consumer receives from typedChan (line 386 completes).
Consume(id) ==
    /\ ~crashed
    /\ fwd[id] = "hold"
    /\ delivered' = [delivered EXCEPT ![id] = Append(@, fval[id])]
    /\ fval' = [fval EXCEPT ![id] = NoFrame]
    /\ fwd' = [fwd EXCEPT ![id] = "recv"]
    /\ UNCHANGED <<clientVars, netVars, chan, pc, localVars, crashed, envVars, hist>>

\* ------------------------------------------------------------------ server
\* The server sends a frame on an open connection the client still holds.
ServerSend(c, f) ==
    /\ ~crashed
    /\ sockState[c] = "open"
    /\ Referenced(c)
    /\ frames < budget.frames
    /\ f.type \in budget.kinds
    /\ frames' = frames + 1
    /\ inbox' = [inbox EXCEPT ![c] = Append(@, f)]
    /\ UNCHANGED <<clientVars, sockState, closeCode, outbox, nextConn, authCalls, chanVars,
                   pc, localVars, crashed, calls, budget, exec, hist>>

ServerNext(c, id) ==
    /\ Subscribed(c, id)
    /\ ServerSend(c, [type |-> "next", id |-> id, seq |-> sent[id] + 1, payload |-> "object"])
    /\ sent' = [sent EXCEPT ![id] = @ + 1]

\* An error frame for id, its payload an object or (as the protocol has it) a list.
ServerError(c, id, shape) ==
    /\ Subscribed(c, id)
    /\ ServerSend(c, [type |-> "error", id |-> id, seq |-> sent[id] + 1, payload |-> shape])
    /\ sent' = [sent EXCEPT ![id] = @ + 1]

ServerComplete(c, id) ==
    /\ Subscribed(c, id)
    /\ ServerSend(c, [type |-> "complete", id |-> id, seq |-> 0, payload |-> ""])
    /\ UNCHANGED sent

ServerPing(c) ==
    /\ ServerSend(c, [type |-> "ping", id |-> 0, seq |-> 0, payload |-> ""])
    /\ UNCHANGED sent

\* The server closes the connection, or the network drops it.
ServerClose(c) ==
    /\ ~crashed
    /\ sockState[c] = "open"
    /\ Referenced(c)
    /\ sockState' = [sockState EXCEPT ![c] = "broken"]
    /\ UNCHANGED <<clientVars, closeCode, inbox, outbox, nextConn, authCalls, chanVars, pc,
                   localVars, crashed, envVars, hist>>

\* --------------------------------------------------------------------- Next
CallerStep(t) ==
    \/ \E r \in CallableRequests : SubscribeEnter(t, r)
    \/ SubscribeInsert(t)
    \/ SubscribeSend(t)
    \/ CleanupSubscription(t)
    \/ \E id \in SubIds : UnsubscribeEnter(t, id)
    \/ UnsubscribeWrite(t)
    \/ UnsubscribeDelete(t)
    \/ Close(t)

OpenStep(t) ==
    \/ OpenCheck(t)
    \/ \E n \in DialFailures : DialWebSocket(t, n)
    \/ OpenFail(t)
    \/ OpenInit(t)

CloseStep(t) ==
    \/ CloseLocked(t)
    \/ CloseWait(t)

PumpStep(p) ==
    \/ ListenStart(p)
    \/ ListenLoop(p)
    \/ ListenRead(p)
    \/ \E code \in CloseCodes : ListenReadError(p, code)
    \/ HandleAuthError(p)
    \/ ReconnectCheck(p)
    \/ ResubscribeLock(p)
    \/ \E id \in SubIds : ResubscribeOne(p, id)
    \/ ResubscribeUnlock(p)
    \/ HandleMessage(p)
    \/ DeliverToChannel(p)
    \/ ListenExit(p)

ChannelStep ==
    \/ \E id \in SubIds : ForwarderExit(id)
    \/ \E id \in SubIds : Consume(id)

ServerStep ==
    \/ \E c \in ConnIds, id \in SubIds : ServerNext(c, id)
    \/ \E c \in ConnIds, id \in SubIds, shape \in ErrorPayloads : ServerError(c, id, shape)
    \/ \E c \in ConnIds, id \in SubIds : ServerComplete(c, id)
    \/ \E c \in ConnIds : ServerPing(c)
    \/ \E c \in ConnIds : ServerClose(c)

\* The steps the client takes on its own, without a new call or a server action.
EngineStep ==
    \/ \E t \in Callers : SubscribeInsert(t) \/ SubscribeSend(t) \/ CleanupSubscription(t)
                            \/ UnsubscribeWrite(t) \/ UnsubscribeDelete(t)
    \/ \E t \in Threads : OpenStep(t)
    \/ \E t \in Threads : CloseStep(t)
    \/ \E p \in Pumps : PumpStep(p)
    \/ ChannelStep

Next ==
    \/ SetAuthErrorHandler
    \/ \E t \in Callers : CallerStep(t)
    \/ \E t \in Threads : OpenStep(t)
    \/ \E t \in Threads : CloseStep(t)
    \/ \E p \in Pumps : PumpStep(p)
    \/ ChannelStep
    \/ ServerStep

Spec == Init /\ [][Next]_vars

\* The steps goroutine t takes once it is running.
ThreadStep(t) ==
    \/ t \in Callers /\ (SubscribeInsert(t) \/ SubscribeSend(t) \/ CleanupSubscription(t)
                          \/ UnsubscribeWrite(t) \/ UnsubscribeDelete(t))
    \/ OpenStep(t)
    \/ CloseStep(t)
    \/ t \in Pumps /\ PumpStep(t)

\* The Go scheduler runs every goroutine that can run: each goroutine's next step is
\* taken if it stays possible, and so are the forwarders' and the consumers'.
Fairness ==
    /\ \A t \in Threads : WF_vars(ThreadStep(t))
    /\ WF_vars(ChannelStep)

SpecFair == Spec /\ Fairness

\* A dial of thread t that succeeds (after no or some failing attempts).
DialSucceeds(t) == \E n \in DialFailures \ {maxRetries} : DialWebSocket(t, n)

\* The runs of one caller with a registered handler: calls, closures of every class by
\* the server, recovery; the server sends no frames.
InitRecover == Init /\ budget.handler

PumpRecoverStep(p) ==
    \/ ListenStart(p)
    \/ ListenLoop(p)
    \/ \E code \in CloseCodes : ListenReadError(p, code)
    \/ HandleAuthError(p)
    \/ ReconnectCheck(p)
    \/ ResubscribeLock(p)
    \/ \E id \in SubIds : ResubscribeOne(p, id)
    \/ ResubscribeUnlock(p)
    \/ ListenExit(p)

NextRecover ==
    \/ SetAuthErrorHandler
    \/ \E t \in Callers : CallerStep(t)
    \/ \E t \in Threads : OpenStep(t)
    \/ \E t \in Threads : CloseStep(t)
    \/ \E p \in Pumps : PumpRecoverStep(p)
    \/ \E id \in SubIds : ForwarderExit(id)
    \/ \E c \in ConnIds : ServerClose(c)

\* The server comes back: a reconnect that keeps dialing gets a dial that succeeds.
SpecRecover ==
    /\ InitRecover /\ [][NextRecover]_vars
    /\ Fairness
    /\ \A p \in Pumps : SF_vars(DialSucceeds(p))

\* ------------------------------------------------- stateless execute, steps
\* The caller calls an execute with a target holding data.
ExecCall(impl, data) ==
    /\ exec.pc = "idle"
    /\ exec' = [NoExec EXCEPT !.pc = "request", !.impl = impl, !.target = data,
                              !.before = data]
    /\ UNCHANGED engineVars

\* The HTTP exchange ends (client.go lines 102-112, part_005 lines 36-46).
ExecResponse(r) ==
    /\ exec.pc = "request"
    /\ exec' = [exec EXCEPT !.pc = "response", !.body = r]
    /\ UNCHANGED engineVars

\* The body is decoded and the call returns.
ExecReturn ==
    /\ exec.pc = "response"
    /\ LET out == IF exec.impl = "execute" THEN execute(exec.body, exec.target)
                  ELSE Execute(exec.body, exec.target)
       IN exec' = [exec EXCEPT !.pc = "done", !.target = out.Data,
                               !.errors = out.Errors, !.err = out.err]
    /\ UNCHANGED engineVars

\* The caller is done with the result.
ExecForget ==
    /\ exec.pc = "done"
    /\ exec' = NoExec
    /\ UNCHANGED engineVars

NextExec ==
    \/ \E impl \in {"execute", "Execute"}, data \in TargetValues : ExecCall(impl, data)
    \/ \E r \in Responses : ExecResponse(r)
    \/ ExecReturn
    \/ ExecForget

SpecExec == Init /\ [][NextExec]_vars


\* ================================================================ properties
\* No public call is in progress.
Quiet == \A t \in Callers : pc[t] = "idle"

\* A subscribe frame for record id, as stored in the registry, was written on c.
ReplayedOn(c, id) ==
    \E i \in 1..Len(outbox[c]) :
        outbox[c][i] = SubscribeFrame(id, subs[id].query, subs[id].variables)

\* C1, as stated: between calls, the registry holds as many records as subscribe
\* calls returned successfully and were not matched since by an unsubscribe call for
\* their id or by a complete frame for their id.
C1_RegistryCountsCalls ==
    Quiet => Cardinality(DOMAIN subs) = Cardinality(hist.expect)

\* C1, amended: between calls, the registry holds exactly the ids whose subscribe call
\* returned successfully and whose record was not removed, before or after that
\* return, by an unsubscribe call that returned nil, by a complete frame for the id, or
\* by a failed resend in resubscribeAll.
C1_RegistryMatchesRemovals ==
    Quiet => DOMAIN subs = hist.live

\* Two subscribes returned, one of the two was removed, the other is registered.
C1_Witness ==
    /\ Quiet
    /\ hist.returned = {1, 2}
    /\ Cardinality(hist.live) = 1
    /\ DOMAIN subs = hist.live
    /\ hist.lastCall = "unsubscribe"

\* C2: once an unsubscribe call has removed the last record while the handle was an
\* open connection, no connection was lost since, and the client has no step left to
\* take on its own, the handle is absent.
C2_LastUnsubscribeCloses ==
    (/\ hist.lastCall = "unsub_last"
     /\ \A c \in ConnIds : sockState[c] # "broken"
     /\ ~ENABLED EngineStep)
    => wsConn = 0

\* Every value held for or received by a consumer carries the id of its sink.
RoutedRight ==
    \A id \in SubIds :
        /\ \A i \in 1..Len(delivered[id]) : delivered[id][i].id = id
        /\ fwd[id] = "hold" => fval[id].id = id

\* The pump's step on a next frame whose id is not registered: back to the read loop,
\* registry, handle and sinks unchanged.
IgnoredStep ==
    \A p \in Pumps :
        (/\ pc[p] = "l_handle"
         /\ pmsg[p].type = "next"
         /\ pmsg[p].id \notin DOMAIN subs
         /\ pc'[p] # "l_handle")
        => /\ pc'[p] = "l_loop"
           /\ UNCHANGED <<subs, wsConn, chan, fwd, fval, delivered>>

\* C3: a next frame whose id is not in the registry is ignored (the pump goes on
\* reading, the registry, the handle and every sink are unchanged), and a next frame
\* with id X is only ever delivered into the sink registered under X.
C3_UnknownNextIgnored == []RoutedRight /\ [][IgnoredStep]_vars

\* On the first connection, still open, a next frame the server sent for an id that is
\* not registered any more has been read and was delivered nowhere.
C3_Witness ==
    /\ ~crashed
    /\ nextConn = 1 /\ wsConn = 1 /\ sockState[1] = "open"
    /\ inbox[1] = <<>>
    /\ \A p \in Pumps : pmsg[p] = NoFrame
    /\ \E id \in SubIds :
         /\ id \notin DOMAIN subs
         /\ sent[id] > Len(delivered[id])
         /\ fwd[id] # "hold"

\* C4: when a pump returns from the recovery of a closure that was not normal, a
\* handle on an open socket exists and no call is in progress, every record that was registered at the closure and still is has its
\* subscribe frame, with its id, query and variables, on the connection of the handle.
C4_ReplayedAfterReconnect ==
    \A p \in Pumps :
        (pc[p] = "l_exit" /\ wsConn # 0 /\ sockState[wsConn] = "open" /\ Quiet)
        => \A id \in hist.snap[p] \cap DOMAIN subs : ReplayedOn(wsConn, id)

\* C5: the handler is called at most once for the closure of a connection, and it has
\* been called when the pump goes on to reconnect after an authorization close.
C5_AuthHandlerOnce ==
    /\ \A c \in ConnIds : authCalls[c] <= 1
    /\ \A p \in Pumps :
         (pc[p] = "rc_check" /\ dconn[p] # 0 /\ authErrorHandler)
         => (closeCode[dconn[p]] = "auth" => authCalls[dconn[p]] >= 1)

\* C6: the values a consumer received for an id are in the order the server sent them,
\* none twice.
C6_DeliveredInOrder ==
    \A id \in SubIds :
        \A i, j \in 1..Len(delivered[id]) :
            i < j => delivered[id][i].seq < delivered[id][j].seq

\* The pump's step on a complete frame for s1 while another record is registered.
CompleteOneStep ==
    \A p \in Pumps, s1 \in SubIds :
        (/\ pc[p] = "l_handle"
         /\ pmsg[p].type = "complete"
         /\ pmsg[p].id = s1
         /\ s1 \in DOMAIN subs
         /\ DOMAIN subs # {s1}
         /\ pc'[p] # "l_handle")
        => /\ chan'[s1] = "closed"
           /\ s1 \notin DOMAIN subs'
           /\ \A s2 \in DOMAIN subs \ {s1} :
                s2 \in DOMAIN subs' /\ subs'[s2] = subs[s2] /\ chan'[s2] = "open"
           /\ wsConn' = wsConn
           /\ pc'[p] = "l_loop"

\* C7: with S1 and S2 registered, a complete frame for S1 closes S1's sink and removes
\* S1's record; S2's record stays, S2's sink stays open, the handle stays as it was.
C7_CompleteOneOfTwo == [][CompleteOneStep]_vars

\* On the first connection, still the handle: S1's sink is closed and its record gone,
\* S2 is registered with its sink open.
C7_Witness ==
    /\ ~crashed
    /\ nextConn = 1 /\ wsConn = 1 /\ sockState[1] = "open"
    /\ \E s1, s2 \in SubIds :
         /\ s1 # s2
         /\ s1 \in hist.returned \ hist.live
         /\ chan[s1] = "closed" /\ s1 \notin DOMAIN subs
         /\ s2 \in DOMAIN subs /\ chan[s2] = "open"

\* C8: an execute call that got an envelope with a non-empty error list returned an
\* error carrying the first message, and the caller's target holds what it held before.
C8_ErrorListIsError ==
    (exec.pc = "done" /\ exec.body.status = "ok" /\ exec.body.errors # <<>>)
    => /\ exec.err = [kind |-> "GraphQL error", message |-> exec.body.errors[1]]
       /\ exec.target = exec.before

\* C9: when a caller's closeWebSocket that closed a connection returns, the handle is
\* absent and the pump started for that connection is not running.
C9_CloseStopsPump ==
    [][\A t \in Callers :
          (pc[t] = "cw_wait" /\ pc'[t] # "cw_wait" /\ closing[t] # 0)
          => (wsConn' = 0 /\ pc'[PumpOf(closing[t])] \in {"none", "done"})]_vars

\* C10: Close called while no handle exists returns at once: no frame written, no
\* socket closed, handle and registry unchanged.
C10_CloseNoHandleNoOp ==
    [][\A t \in Callers :
          (Close(t) /\ wsConn = 0)
          => (pc'[t] = "idle" /\ UNCHANGED <<wsConn, subs, outbox, sockState, chan, wg>>)]_vars

\* A Close that found no handle, after an earlier close closed a socket.
C10_Witness ==
    /\ hist.lastCall = "close_noop"
    /\ wsConn = 0
    /\ \E c \in ConnIds : sockState[c] = "closed"

\* C11: once Close has been called while a pump's recovery had cleared the handle, and
\* no other call was made since, a dial made by the reconnect loop does not establish
\* a connection: the handle stays absent.
C11_NoOpenAfterClose ==
    [][\A p \in Pumps :
          (/\ pc[p] = "ow_dial"
           /\ pc'[p] # "ow_dial"
           /\ wsConn = 0
           /\ hist.lastCall = "close_noop")
          => wsConn' = 0]_vars

\* C12: at most one socket is open (dialed, not closed by the client, the peer still
\* there), and a socket that is open is the one recorded as the connection handle.
C12_OneSocketTheHandle ==
    /\ Cardinality({c \in ConnIds : sockState[c] = "open"}) <= 1
    /\ \A c \in ConnIds : sockState[c] = "open" => wsConn = c

\* C13: no two pump goroutines are reading from the same connection.
C13_OnePumpPerConnection ==
    \A p, q \in Pumps :
        (p # q /\ pc[p] = "l_read" /\ pc[q] = "l_read") => dconn[p] # dconn[q]

\* C14: openWebSocket called while a handle exists returns nil at once: no dial, no
\* frame written, no pump started, handle and registry unchanged.
C14_OpenWithHandleNoOp ==
    [][\A t \in Threads :
          (pc[t] = "ow_check" /\ pc'[t] # "ow_check" /\ wsConn # 0)
          => /\ pc'[t] = AfterOpen(t, TRUE)
             /\ \A q \in Threads \ {t} : pc'[q] = pc[q]
             /\ UNCHANGED <<wsConn, subs, nextConn, sockState, outbox, tries, wg>>]_vars

\* Both callers are back from openWebSocket with nil after a single dial: one of the
\* two calls found the handle the other had set.  One init frame, one pump.
C14_Witness ==
    /\ \A t \in Callers : pc[t] = "sub_insert"
    /\ nextConn = 1 /\ wsConn = 1
    /\ outbox[1] = <<InitFrame>>
    /\ \A c \in ConnIds : pc[PumpOf(c)] # "none" <=> c = 1

\* What dialWebSocket's loop does for each number of failing attempts: never more than
\* maxRetries attempts, success exactly when fewer than maxRetries fail, and then no
\* attempt after the first that succeeded.
DialLoopBounded ==
    \A n \in DialFailures \cup {maxRetries + 1} :
        /\ DialLoop(0, n).attempts <= maxRetries
        /\ DialLoop(0, n).ok <=> n < maxRetries
        /\ DialLoop(0, n).ok => DialLoop(0, n).attempts = n + 1
        /\ ~DialLoop(0, n).ok => DialLoop(0, n).attempts = DialErrorAttempts

\* The attempts of every call in progress, and what the failed call's error names.
DialAttemptsBounded ==
    \A t \in Threads :
        /\ tries[t] <= maxRetries
        /\ pc[t] = "ow_init" => tries[t] >= 1
        /\ pc[t] = "ow_fail" => tries[t] = DialErrorAttempts

\* The steps of an openWebSocket call whose dials all fail: the handle is as it was,
\* no socket was made, no frame written, no pump started.
DialFailStep ==
    \A t \in Threads :
        (\/ pc[t] = "ow_dial" /\ pc'[t] = "ow_fail"
         \/ pc[t] = "ow_fail" /\ pc'[t] # "ow_fail")
        => /\ UNCHANGED <<wsConn, subs, nextConn, sockState, outbox, wg>>
           /\ \A q \in Threads \ {t} : pc'[q] = pc[q]
           /\ pc'[t] \in {"ow_fail", AfterOpen(t, FALSE)}

\* C15: one openWebSocket call makes at most maxRetries dial attempts and stops at the
\* first that succeeds; when all fail it returns the error naming that count, and the
\* call leaves the handle as it was (absent, unless another goroutine set it) and
\* starts no pump.
C15_DialBounded == [](DialLoopBounded /\ DialAttemptsBounded) /\ [][DialFailStep]_vars

\* A caller's open has made maxRetries attempts, all failed: no handle, no socket.
C15_Witness ==
    \E t \in Callers :
        /\ pc[t] = "ow_fail"
        /\ tries[t] = maxRetries
        /\ wsConn = 0 /\ nextConn = 0
        /\ \A p \in Pumps : pc[p] = "none"

\* Thread t is in dialWebSocket's loop (an attempt or the sleep between attempts), is
\* returning its error, or is between two openWebSocket calls of reconnect's loop (the
\* sleep of line 232).
Dialing(t) ==
    \/ pc[t] \in {"ow_dial", "ow_fail"}
    \/ t \in Pumps /\ pc[t] = "ow_check"

\* C16: a thread that is dialing or sleeping between attempts does not hold the mutex,
\* so the mutex is free for the other threads or held by one that is not waiting for
\* the dial.
C16_DialUnlocked ==
    \A t \in Threads : Dialing(t) => (mu # t /\ (mu # 0 => ~Dialing(mu)))

\* Both callers are in the dial loop with the mutex free: the one that came second took
\* and released the mutex (subscribe's and openWebSocket's checks) while the first was
\* dialing.
C16_Witness ==
    /\ \A t \in Callers : pc[t] = "ow_dial"
    /\ mu = 0

\* Thread t has released the mutex and its next operation is a WriteJSON on connection
\* c: connection_init (line 94), subscribe (line 320), complete (line 352), pong (line
\* 212).  Nothing keeps such a write from overlapping another thread's.
UnlockedWrite(t, c) ==
    /\ c # 0
    /\ \/ pc[t] \in {"ow_init", "sub_send"} /\ wsConn = c
       \/ pc[t] = "un_write" /\ dconn[t] = c
       \/ pc[t] = "l_handle" /\ pmsg[t].type = "ping" /\ wsConn = c

\* C17: writes on one socket are serialized: no two threads are at a write on the same
\* connection with no lock between them.
C17_WritesSerialized ==
    \A c \in ConnIds : \A t, u \in Threads :
        (UnlockedWrite(t, c) /\ UnlockedWrite(u, c)) => t = u

\* The subscribe frames in a sequence of written frames.
SubscribeFrames(ob) == {i \in 1..Len(ob) : ob[i].type = "subscribe"}

\* The steps of a caller inside the openWebSocket call that subscribe made: no id is
\* drawn, no record inserted, no channel made, no subscribe frame written, no id
\* returned; and after a failure (all dials failed, or connection_init could not be
\* written) the caller is back from subscribe, with the error.
OpenInSubscribeStep ==
    \A t \in Callers :
        (pc[t] \in {"ow_check", "ow_dial", "ow_fail", "ow_init"} /\ pc'[t] # pc[t])
        => /\ UNCHANGED <<counter, subs, chan>>
           /\ hist'.returned = hist.returned
           /\ \A c \in ConnIds :
                Cardinality(SubscribeFrames(outbox'[c])) <= Cardinality(SubscribeFrames(outbox[c]))
           /\ pc[t] = "ow_fail" => pc'[t] = "idle"
           /\ (pc[t] = "ow_init" /\ wsConn # 0 /\ outbox'[wsConn] = outbox[wsConn])
              => pc'[t] = "idle"
           /\ pc'[t] \in {"ow_dial", "ow_fail", "ow_init", "sub_insert", "idle"}
           /\ pc'[t] = "sub_insert" => wsConn' # 0

\* C18: when subscribe finds no connection and openWebSocket fails, subscribe returns
\* the error: no record is added, no id drawn, no subscribe frame written.
C18_OpenFailsNoRecord == [][OpenInSubscribeStep]_vars

\* The only call so far was a subscribe whose dials all failed: it has returned, and
\* the generator, the registry and the network are untouched.
C18_Witness ==
    /\ Quiet
    /\ calls = 1 /\ hist.lastCall = "subscribe" /\ hist.returned = {}
    /\ counter = 0 /\ subs = <<>>
    /\ nextConn = 0 /\ wsConn = 0

\* The steps of a subscribe call from the write of its frame on.  A failed write goes
\* to cleanupSubscription and returns no id; cleanupSubscription removes the call's
\* record and no other, and goes on to closeWebSocket exactly when the registry is
\* then empty; closeWebSocket's critical section closes the socket of the handle and
\* leaves the handle absent; the call then returns without an id.
FailedSendStep ==
    \A t \in Callers :
        /\ (pc[t] = "sub_send" /\ pc'[t] # "sub_send" /\ outbox'[wsConn] = outbox[wsConn])
           => (pc'[t] = "cl_clean" /\ sid'[t] = sid[t] /\ hist'.returned = hist.returned)
        /\ (pc[t] = "cl_clean" /\ pc'[t] # "cl_clean")
           => /\ DOMAIN subs' = DOMAIN subs \ {sid[t]}
              /\ \A k \in DOMAIN subs' : subs'[k] = subs[k]
              /\ pc'[t] = IF DOMAIN subs' = {} THEN "cw" ELSE "idle"
              /\ hist'.returned = hist.returned
        /\ (pc[t] = "cw" /\ pc'[t] # "cw")
           => /\ wsConn' = 0
              /\ wsConn # 0 => sockState'[wsConn] = "closed"
        /\ (pc[t] = "cw_wait" /\ pc'[t] # "cw_wait")
           => (pc'[t] = "idle" /\ hist'.returned = hist.returned)

\* C19: when the write of the subscribe frame fails, subscribe returns the error, the
\* record it inserted is removed, and if the registry is then empty the connection is
\* closed and the handle cleared.
C19_FailedSendCleansUp == [][FailedSendStep]_vars

\* The only call so far was a subscribe that drew id 1 and returned no id: its record
\* is gone, the connection it opened was closed and the handle is absent.
C19_Witness ==
    /\ Quiet
    /\ calls = 1 /\ counter = 1 /\ hist.returned = {}
    /\ subs = <<>>
    /\ wsConn = 0 /\ sockState[1] = "closed"

\* C20: unsubscribe called while no handle exists returns the "no active connection"
\* error at once and writes no frame; handle, sockets and registry are as they were.
C20_UnsubscribeNoConnection ==
    [][\A t \in Callers, id \in SubIds :
          (UnsubscribeEnter(t, id) /\ wsConn = 0)
          => /\ pc'[t] = "idle"
             /\ hist'.lastCall = "unsub_noconn"
             /\ UNCHANGED <<wsConn, subs, outbox, sockState, chan>>]_vars

\* An unsubscribe found no handle and returned the error; its record is still there.
C20_Witness ==
    /\ Quiet
    /\ hist.lastCall = "unsub_noconn"
    /\ wsConn = 0
    /\ hist.returned \cap DOMAIN subs # {}

\* C21: when unsubscribe(id) returns after it found a connection, whether the write of
\* the complete frame succeeded or failed, id is not in the registry.
C21_UnsubscribeAlwaysRemoves ==
    [][\A t \in Callers :
          (pc[t] \in {"un_write", "un_delete"} /\ pc'[t] = "idle")
          => sid[t] \notin DOMAIN subs']_vars

\* unsubscribe(id) has returned nil: the id was returned by subscribe and its record
\* removed, and not by a complete frame or a failed resend, which close the channel.
Unsubscribed(id) == id \in hist.returned \ hist.live /\ chan[id] = "open"

\* C22: once unsubscribe(id) has returned, the pump sends no value on id's channel any
\* more, whether the frame arrived later or was being dispatched during the call.
C22_NoDeliveryAfterUnsubscribe ==
    [][\A id \in SubIds :
          (fwd[id] = "recv" /\ fwd'[id] = "hold") => ~Unsubscribed(id)]_vars

\* The ids issued so far: subscribe makes the channel of an id when it draws it.
Issued == {i \in SubIds : chan[i] # "none"}

\* The step in which a subscribe call draws its id: the id is greater than every id
\* issued before, and it is the counter's new value.
IssueStep ==
    \A t \in Callers :
        (pc[t] # "sub_send" /\ pc'[t] = "sub_send")
        => /\ \A i \in Issued : sid'[t] > i
           /\ sid'[t] = counter'
           /\ Issued' = Issued \cup {sid'[t]}

\* The ids that calls in progress hold are issued ids, and no two calls hold the same.
HeldIdsDistinct ==
    /\ \A t \in Callers : pc[t] \in {"sub_send", "cl_clean"} => sid[t] \in Issued
    /\ \A t, u \in Callers :
         (t # u /\ pc[t] \in {"sub_send", "cl_clean"} /\ pc[u] \in {"sub_send", "cl_clean"})
         => sid[t] # sid[u]
    /\ DOMAIN subs \subseteq Issued
    /\ hist.returned \subseteq Issued

\* C23: every subscribe call gets an id greater than all ids issued before it, so no
\* id is issued twice, whatever calls, failures, closes or reconnects lie between.
C23_IdsStrictlyIncrease == []HeldIdsDistinct /\ [][IssueStep]_vars

\* Two concurrent subscribe calls hold ids 1 and 2, neither has returned yet.
C23_Witness ==
    /\ \A t \in Callers : pc[t] = "sub_send"
    /\ {sid[t] : t \in Callers} = {1, 2}
    /\ hist.returned = {}

\* C24: the writes of subscribe (sendSubscribeMessage), of resubscribeAll and of
\* sendPong never find the handle absent: none of these steps ends in the panic of a
\* write through a nil handle.
C24_NoWriteToNilHandle ==
    [][\A t \in Threads :
          (\/ SubscribeSend(t)
           \/ \E id \in SubIds : ResubscribeOne(t, id)
           \/ pmsg[t].type = "ping" /\ HandleMessage(t))
          => ~crashed']_vars

\* The pump's steps on an error frame: the read hands the frame to handleMessage; the
\* lookup sends a registered id on to delivery and drops an unregistered one; the
\* delivery hands the value to the id's channel.  The handle, the registry and the
\* channels' state are unchanged by each of the steps.
ErrorFrameStep ==
    \A p \in Pumps :
        /\ (/\ pc[p] = "l_read" /\ pc'[p] # "l_read"
            /\ inbox[dconn[p]] # <<>>
            /\ Head(inbox[dconn[p]]).type = "error")
           => /\ pc'[p] = "l_handle"
              /\ pmsg'[p] = Head(inbox[dconn[p]])
              /\ UNCHANGED <<wsConn, subs, chan, sockState>>
        /\ (pc[p] = "l_handle" /\ pc'[p] # "l_handle" /\ pmsg[p].type = "error")
           => /\ pc'[p] = IF pmsg[p].id \in DOMAIN subs THEN "l_send" ELSE "l_loop"
              /\ pc'[p] = "l_send" => sid'[p] = pmsg[p].id
              /\ UNCHANGED <<wsConn, subs, chan, sockState, fwd, fval, delivered>>
        /\ (pc[p] = "l_send" /\ pc'[p] # "l_send" /\ pmsg[p].type = "error")
           => /\ fwd'[sid[p]] = "hold" /\ fval'[sid[p]] = pmsg[p]
              /\ pc'[p] = "l_loop"
              /\ UNCHANGED <<wsConn, subs, chan, sockState>>

\* C25: an error frame for a registered id is delivered as a value into that id's
\* sink, the sink stays open, the record stays, the connection and the other
\* subscriptions are untouched; an error frame for an unregistered id delivers nothing.
C25_ErrorFrameDelivered == [][ErrorFrameStep]_vars

\* C26: when the pump handles a complete frame for the only registered subscription,
\* the pump goroutine eventually returns from listen (unless the process panics).
C26_CompleteLastStopsPump ==
    \A p \in Pumps :
        (pc[p] = "l_handle" /\ pmsg[p].type = "complete" /\ DOMAIN subs = {pmsg[p].id})
        ~> (pc[p] = "done" \/ crashed)

\* The pump's step on a failed read: the handle is absent after it, the mutex is free,
\* and the step neither calls the auth-error handler nor dials.
ReadFailureStep ==
    \A p \in Pumps :
        (pc[p] = "l_read" /\ pc'[p] \notin {"l_read", "l_handle"})
        => /\ wsConn' = 0 /\ mu' = 0
           /\ pc'[p] \in {"l_exit", "re_auth", "rc_check"}
           /\ UNCHANGED <<authCalls, nextConn, sockState, tries>>

\* While the pump is about to call the handler or to enter reconnect, the handle is not
\* the connection whose read failed: it is absent, or a connection opened since.
StaleHandleCleared ==
    \A p \in Pumps :
        pc[p] \in {"re_auth", "rc_check"} => (dconn[p] # 0 /\ wsConn # dconn[p])

\* C27: on a read failure the pump clears the handle before it calls the auth-error
\* handler and before any reconnect dial, so a caller that takes the mutex once the
\* failure is handled does not see the failed connection.
C27_HandleClearedFirst == []StaleHandleCleared /\ [][ReadFailureStep]_vars

\* The read failed with an authorization close: the handle is already absent and the
\* registered handler has not been called yet.
C27_Witness ==
    \E p \in Pumps :
        /\ pc[p] = "re_auth"
        /\ authErrorHandler
        /\ closeCode[dconn[p]] = "auth" /\ authCalls[dconn[p]] = 0
        /\ wsConn = 0

\* The pump's steps on a read that failed with a normal or going-away close: the pump
\* goes to listen's return and from there to its end, and neither step calls the
\* handler, dials, writes a frame or changes the registry.  A pump that has ended does
\* not run again.
NormalCloseStep ==
    \A p \in Pumps :
        /\ (/\ pc[p] = "l_read" /\ pc'[p] \notin {"l_read", "l_handle"}
            /\ closeCode'[dconn[p]] = "normal")
           => /\ pc'[p] = "l_exit"
              /\ UNCHANGED <<subs, chan, authCalls, nextConn, outbox, tries>>
        /\ (pc[p] = "l_exit" /\ pc'[p] # "l_exit")
           => /\ pc'[p] = "done"
              /\ UNCHANGED <<subs, chan, nextConn, tries, wsConn>>
              /\ \A c \in ConnIds :
                   /\ authCalls'[c] <= authCalls[c]
                   /\ Len(outbox'[c]) <= Len(outbox[c])
        /\ pc[p] = "done" => pc'[p] = "done"

\* C28: when the read fails with a normal-closure or going-away close, the pump stops
\* without recovery: the handler is not called, nothing is dialed, no subscribe frame
\* is written again, the registry is unchanged.
C28_NormalCloseNoRecovery == [][NormalCloseStep]_vars

\* After a normal close the pump is returning from listen: a handler is registered and
\* was not called, the record is still registered, nothing was dialed again.
C28_Witness ==
    \E p \in Pumps :
        /\ pc[p] = "l_exit"
        /\ dconn[p] # 0 /\ closeCode[dconn[p]] = "normal"
        /\ authErrorHandler /\ authCalls[dconn[p]] = 0
        /\ DOMAIN subs # {}
        /\ wsConn = 0 /\ nextConn = 1

\* C29: a pump whose connection the client itself closed stops without recovery: when
\* its read has failed on the closed socket it does not enter reconnect's loop of
\* openWebSocket calls.
C29_LocalCloseNoRecovery ==
    [][\A p \in Pumps :
          (/\ pc[p] = "rc_check" /\ pc'[p] # "rc_check"
           /\ dconn[p] # 0 /\ sockState[dconn[p]] = "closed")
          => pc'[p] = "l_exit"]_vars

\* C30: a pump that has handled the failure of a read on a connection the peer or the
\* network dropped, not a normal close, and has called reconnect eventually returns from listen (unless the process panics),
\* whether or not a dial of the reconnect succeeds.
C30_PumpExitsAfterRecovery ==
    \A p \in Pumps :
        (pc[p] = "rc_check" /\ dconn[p] # 0 /\ closeCode[dconn[p]] = "abnormal")
        ~> (pc[p] = "done" \/ crashed)

\* C31: a read of a frame that cannot be decoded drops the frame: the handle stays as
\* it was and the pump neither stops nor goes to recovery.
C31_UndecodableFrameDropped ==
    [][\A p \in Pumps :
          (/\ pc[p] = "l_read" /\ pc'[p] # "l_read"
           /\ inbox[dconn[p]] # <<>>
           /\ ~Decodes(Head(inbox[dconn[p]])))
          => /\ wsConn' = wsConn
             /\ pc'[p] \notin {"l_exit", "re_auth", "rc_check"}]_vars

\* C32: when the pump has handled a ping read on a connection that is still open, one
\* pong frame has been written on that connection, nothing on any other, the registry
\* and the handle are as they were, and the pump is back at its read loop.
C32_PongOnSameConnection ==
    [][\A p \in Pumps :
          (/\ pc[p] = "l_handle" /\ pc'[p] # "l_handle"
           /\ pmsg[p].type = "ping"
           /\ sockState[dconn[p]] = "open")
          => /\ outbox'[dconn[p]] = Append(outbox[dconn[p]], PongFrame)
             /\ \A c \in ConnIds \ {dconn[p]} : Len(outbox'[c]) <= Len(outbox[c])
             /\ pc'[p] = "l_loop"
             /\ UNCHANGED <<subs, wsConn>>]_vars

\* The steps of reconnect: with a handle present it returns at once, with nothing
\* dialed, written or changed in the registry; a failed openWebSocket is followed by
\* another call, whatever the number of calls before; a successful one by resubscribeAll,
\* after which the pump returns.
ReconnectStep ==
    \A p \in Pumps :
        /\ (pc[p] = "rc_check" /\ pc'[p] # "rc_check")
           => /\ pc'[p] = IF wsConn # 0 THEN "l_exit" ELSE "ow_check"
              /\ UNCHANGED <<wsConn, subs, chan, nextConn, sockState, tries>>
              /\ \A c \in ConnIds : Len(outbox'[c]) <= Len(outbox[c])
        /\ (pc[p] = "ow_fail" /\ pc'[p] # "ow_fail") => pc'[p] = "ow_check"
        /\ (pc[p] = "ow_check" /\ pc'[p] # "ow_check")
           => pc'[p] = IF wsConn # 0 THEN "rs_lock" ELSE "ow_dial"
        /\ (pc[p] = "rs_lock" /\ pc'[p] # "rs_lock") => pc'[p] = "rs_loop"
        /\ (pc[p] = "rs_loop" /\ pc'[p] # "rs_loop") => pc'[p] = "l_exit"

\* C33: reconnect returns at once when a handle exists and otherwise calls
\* openWebSocket again and again, without a limit; when dials can succeed, the handle
\* becomes present again, and a reconnect that found no handle gets to run
\* resubscribeAll (unless the process panics or the run's dials are used up).
C33_ReconnectUntilSuccess ==
    /\ [][ReconnectStep]_vars
    /\ \A p \in Pumps :
         (pc[p] = "rc_check") ~> (wsConn # 0 \/ crashed \/ nextConn >= budget.conns)
    /\ \A p \in Pumps :
         (pc[p] = "ow_check") ~> (pc[p] = "rs_loop" \/ crashed \/ nextConn >= budget.conns)

\* The reconnect after the loss of connection 1 has dialed the second connection and is
\* running resubscribeAll on it, with a record to send again.
C33_Witness ==
    \E p \in Pumps :
        /\ pc[p] = "rs_loop"
        /\ nextConn = 2 /\ wsConn = 2
        /\ sockState[1] = "broken"
        /\ todo[p] # {}

\* One iteration of resubscribeAll's range, for record id: either the record's
\* subscribe frame is written on the handle and registry and channels are unchanged,
\* or nothing is written, the record's channel is closed and the record, and no other,
\* removed.  The other records still to visit stay to visit, and the range ends only
\* when none is left.
ResubscribeStep ==
    \A p \in Pumps :
        /\ (pc[p] = "rs_loop" /\ todo'[p] # todo[p])
           => \E id \in todo[p] :
                /\ todo'[p] = todo[p] \ {id}
                /\ pc'[p] = "rs_loop"
                /\ \/ /\ outbox'[wsConn] = Append(outbox[wsConn], ResubscribeFrame(id))
                      /\ UNCHANGED <<subs, chan>>
                   \/ /\ UNCHANGED outbox
                      /\ chan' = [chan EXCEPT ![id] = "closed"]
                      /\ DOMAIN subs' = DOMAIN subs \ {id}
                      /\ \A k \in DOMAIN subs' : subs'[k] = subs[k]
        /\ (pc[p] = "rs_loop" /\ pc'[p] # "rs_loop") => todo[p] = {}

\* C34: in resubscribeAll a record whose resend fails has its sink closed and is
\* removed, the range goes on to the remaining records, and records whose resend
\* succeeded stay registered with their sinks open.
C34_ResubscribeFailureIsLocal == [][ResubscribeStep]_vars

\* resubscribeAll has visited two records: the resend of one failed (sink closed,
\* record removed), the other's frame is on the new connection, its record registered
\* and its sink open.
C34_Witness ==
    \E p \in Pumps, a, b \in SubIds :
        /\ pc[p] = "rs_loop" /\ todo[p] = {}
        /\ a # b /\ {a, b} \subseteq hist.returned
        /\ a \notin DOMAIN subs /\ chan[a] = "closed"
        /\ b \in DOMAIN subs /\ chan[b] = "open" /\ ReplayedOn(wsConn, b)

\* The pump's steps on a next frame for a registered id: the lookup goes on to the
\* send with the frame kept; the pump leaves the send only by handing that frame to the
\* receiver of the record's channel (or the process panics), and while it waits there
\* it holds the frame and reads nothing.
BackpressureStep ==
    \A p \in Pumps :
        /\ (/\ pc[p] = "l_handle" /\ pc'[p] # "l_handle"
            /\ pmsg[p].type = "next" /\ pmsg[p].id \in DOMAIN subs)
           => (pc'[p] = "l_send" /\ sid'[p] = pmsg[p].id /\ pmsg'[p] = pmsg[p])
        /\ (pc[p] = "l_send" /\ pc'[p] # "l_send")
           => /\ fwd[sid[p]] = "recv" /\ fwd'[sid[p]] = "hold"
              /\ fval'[sid[p]] = pmsg[p]
              /\ pc'[p] = "l_loop"
        /\ (pc[p] = "l_send" /\ pc'[p] = "l_send")
           => (pmsg'[p] = pmsg[p] /\ sid'[p] = sid[p])

\* C35: the pump never drops a decoded next frame for a registered subscription: it
\* blocks on the record's channel until the channel's receiver takes the value, and
\* reads no later frame before.
C35_PumpBlocksUntilDelivered == [][BackpressureStep]_vars

\* The pump is blocked in the send of the second value for an id: the receiver still
\* holds the first one, which the consumer has not taken.
C35_Witness ==
    \E p \in Pumps :
        /\ pc[p] = "l_send"
        /\ pmsg[p].type = "next" /\ pmsg[p].seq = 2
        /\ fwd[sid[p]] = "hold" /\ fval[sid[p]].seq = 1
        /\ delivered[sid[p]] = <<>>

\* C36: on every connection the first frame the client wrote is connection_init: no
\* subscribe, complete or pong frame precedes it, also when another caller
\* subscribes while the open is in progress.
C36_InitFrameFirst ==
    \A c \in ConnIds : outbox[c] # <<>> => outbox[c][1] = InitFrame

\* open returns nil only with the handle present: from the handle check that found
\* one, or after connection_init was written on it.
OpenReturnsNilStep ==
    \A t \in Threads :
        (/\ pc[t] \in {"ow_check", "ow_init"} /\ pc'[t] = AfterOpen(t, TRUE)
         /\ pc'[t] # pc[t])
        => wsConn' # 0

C36_OpenSuccessHasHandle == [][OpenReturnsNilStep]_vars

\* A registered record's channel is open: close and delete are made together under
\* the lock, so no second close can find the record.
RegisteredSinksOpen == \A id \in DOMAIN subs : chan[id] = "open"

\* No pump stands in (or is about to make) the send on a channel that is closed.
NoSendOnClosedSink == \A p \in Pumps : pc[p] = "l_send" => chan[sid[p]] # "closed"

\* C37: the engine never sends into a closed sink and never closes a sink twice,
\* whatever the interleaving of delivery, complete handling and resubscribeAll.
C37_NoSendOrCloseOnClosedSink == RegisteredSinksOpen /\ NoSendOnClosedSink

\* C38: on any one connection at most one subscribe frame is written per id, also
\* for a subscribe call that runs between the reconnect's open and its
\* resubscribeAll.
C38_OneSubscribeFramePerConnection ==
    \A c \in ConnIds : \A i, j \in SubscribeFrames(outbox[c]) :
        outbox[c][i].id = outbox[c][j].id => i = j

\* A thread is inside openWebSocket, inside the recovery that leads to it, or inside
\* closeWebSocket.
OpenOrCloseInProgress ==
    \E t \in Threads :
        pc[t] \in {"ow_check", "ow_dial", "ow_fail", "ow_init", "rc_check", "re_auth",
                   "cw", "cw_wait"}

\* A pump is started or in its loop; each turn of the loop takes the handle as conn.
PumpRunning ==
    \E p \in Pumps : pc[p] \in {"l_start", "l_loop", "l_read", "l_handle", "l_send"}

\* C39: whenever the handle is present and no open or close is in progress, a pump is
\* running; a failed write of connection_init does not leave the handle present
\* without a pump.
C39_HandleHasPump ==
    (~crashed /\ wsConn # 0 /\ ~OpenOrCloseInProgress) => PumpRunning

\* Caller t is inside the closeWebSocket of a public Close made while the connection
\* was live, and a typed subscription exists: the last call made was a Close, the
\* other callers are back, and a registered record has its forwarding goroutine.
\* (A caller that came to closeWebSocket from cleanupSubscription left the registry
\* empty, and no subscribe was called since.)
InPublicClose(t) ==
    /\ pc[t] \in {"cw", "cw_wait"}
    /\ hist.lastCall = "close"
    /\ \A u \in Callers \ {t} : pc[u] = "idle"
    /\ \E id \in DOMAIN subs : fwd[id] \in {"recv", "hold"}

\* C40: a public Close called from a caller thread while a connection is live
\* eventually returns (unless the process panics), also when typed subscriptions
\* exist.
C40_CloseReturns ==
    \A t \in Callers : InPublicClose(t) ~> (pc[t] = "idle" \/ crashed)

====
